---- MODULE Spec2Model ----
(***************************************************************************)
(* Passwordless ("magic link") login of the Hercules dashboard:            *)
(*   src/user_management/login.py        send_magic_link (token issuer)    *)
(*   src/user_management/magic_login.py  validate_magic_link (validator)   *)
(* The two Postgres tables hercules_users and hercules_login_magic_link    *)
(* are the shared state; every callback is split at its database calls so  *)
(* that concurrent requests interleave between them.                       *)
(***************************************************************************)
EXTENDS Integers, Sequences, FiniteSets, TLC

\* ------------------------------------------------------------------ bounds
TickMinutes == 5       \* minutes the wall clock advances in one step
MaxPolls == 3          \* ticks of poll_auth followed on a page with two pages open
MaxTicks == 3          \* number of steps of the wall clock in one behaviour
MaxTokens == 2         \* number of uuid4 values drawn in one behaviour
SessionTickHours == 12 \* hours the wall clock advances in one long step

\* the wall clock, in minutes, runs over 0..MaxTime
MaxTime == MaxTicks * TickMinutes

\* ------------------------------------------------------- program constants
TokenLifetime == 10          \* timedelta(minutes=10)
ResendCountdown == 60        \* email_sent_flag set by a successful issuance
PollLimit == 600             \* if (n_intervals >= 600)

\* server.config["PERMANENT_SESSION_LIFETIME"], in seconds, and in minutes
PERMANENT_SESSION_LIFETIME == 36 * 60 * 60
SessionLifetime == PERMANENT_SESSION_LIFETIME \div 60

Tabs == {"tabA", "tabB"}          \* login pages (one callback in flight each)
Validators == {"linkA", "linkB"}  \* windows that follow a /magic_login link

\* ------------------------------------------------------------------ emails
\* An email is a sequence of symbols: the characters of the local part and
\* one symbol for the "@domain" suffix; a trailing "\n" is a symbol too.
DemoEmail == <<"d", "@allianz.com">>
EveEmail == <<"e", "@allianz.de">>
ExampleEmail == <<"d", "@example.com">>
NoEmail == <<>>

LocalChars == {"d", "D", "e", "n"}   \* members of [a-zA-Z0-9_.+-]
AllianzDomains == {"@allianz.com", "@allianz.de"}

EmailInputs ==
    { DemoEmail,
      <<"D", "@allianz.com">>,      \* the demo address in another letter case
      <<"n", "@allianz.com">>,      \* well formed, not registered
      <<"d", "@gmail.com">>,        \* foreign domain
      <<"@allianz.com">>,           \* empty local part
      <<"d", "@allianz.com", "\n">>, \* trailing newline
      NoEmail }

LowerChar(c) == IF c = "D" THEN "d" ELSE c
Lower(e) == [k \in DOMAIN e |-> LowerChar(e[k])]

\* re.match(r"^[a-zA-Z0-9_.+-]+@allianz\.(com|de)$", email)
\* ("$" also matches just before one trailing newline)
FullMatch(e) ==
    /\ Len(e) >= 2
    /\ e[Len(e)] \in AllianzDomains
    /\ \A k \in 1..(Len(e) - 1) : e[k] \in LocalChars

RegexMatch(e) ==
    \/ FullMatch(e)
    \/ /\ Len(e) >= 1
       /\ e[Len(e)] = "\n"
       /\ FullMatch(SubSeq(e, 1, Len(e) - 1))

\* validate_email: an error message (truthy) or False
validate_email(e) ==
    IF e = NoEmail THEN "Email cannot be empty."
    ELSE IF RegexMatch(e) THEN "False"
    ELSE "Invalid email format."

\* ------------------------------------------------------------------- state
VARIABLES
    clock,      \* datetime.now(), in minutes
    users,      \* table hercules_users: rows [email, is_approved]
    links,      \* table hercules_login_magic_link: rows [email, token, expiry]
    nextToken,  \* number of uuid4 values drawn so far
    mailbox,    \* mails accepted by send_email: [to, link]
    tab,        \* per login page: the components the callbacks write
    req,        \* per login page: the send_magic_link call in flight
    val,        \* per link window: the validate_magic_link call in flight
    session,    \* the flask-login session of the browser of the link windows
    superseded, \* history: tokens whose row a later upsert has replaced
    user_sessions, \* dash_app.py: the keys of the dictionary user_sessions
    store,      \* dash_app.py: session-store of the browser, a session id
    ended,      \* history: the session ids whose holder has logged out
    repeated,   \* history: a logout was performed with no session to end
                \* (cookie, store); logged_out: update_logout has run
    local_storage, \* localStorage of the browser: the item hercules_logged_in
    served      \* the last response of display_page or of a data callback

\* what send_magic_link and validate_magic_link leave alone: the sessions of
\* dash_app.py, the logout history and localStorage
sideVars == <<user_sessions, store, ended, repeated, local_storage, served>>

vars == <<clock, users, links, nextToken, mailbox, tab, req, val, session,
          superseded, user_sessions, store, ended, repeated, local_storage,
          served>>

NoToken == ""
NoStore == <<>>        \* session-store holds None
NoItem == ""           \* localStorage.getItem returns null
NothingServed == [ route |-> "", session_data |-> NoStore, response |-> "" ]
NoSession == NoEmail
NoUser == [email |-> NoEmail, is_approved |-> FALSE]

\* str(uuid.uuid4()): the n-th value drawn, all distinct
Uuid(n) == ToString(n)
Tokens == { Uuid(n) : n \in 1..MaxTokens }

\* url.rsplit("/", 1)[0]; a url is the sequence of its "/"-separated parts
Href == <<"https://hercules", "login">>
BaseUrl(url) == SubSeq(url, 1, Len(url) - 1)

\* f"{base_url}/magic_login?token={token}"
MagicLink(url, token) == BaseUrl(url) \o <<"magic_login", "?", "token=", token>>

\* the query string of a link, as dcc.Location reports it in url.search
SearchOf(link) == SubSeq(link, Len(link) - 2, Len(link))

\* ---------------------------------------------------------------- database
\* SELECT * FROM hercules_users WHERE email = :email
SelectUsers(email) == { u \in users : u.email = email }

\* variant: the comparison admits expiry = :now
SelectNotBefore(token, now) ==
    { r \in links : r.token = token /\ r.expiry >= now }

\* variant: the token is not compared
SelectUnexpired(token, now) ==
    { r \in links : r.expiry > now }

\* SELECT email FROM hercules_login_magic_link
\*   WHERE token = :token AND expiry > :now
SelectValid(token, now) ==
    { r \in links : r.token = token /\ r.expiry > now }

\* variant: a plain INSERT without the conflict clause
InsertRow(table, email, token, expiry) ==
    table \cup { [email |-> email, token |-> token, expiry |-> expiry] }

\* variant: ON CONFLICT (email) DO NOTHING
InsertIfAbsent(table, email, token, expiry) ==
    IF \E r \in table : r.email = email
    THEN table
    ELSE table \cup { [email |-> email, token |-> token, expiry |-> expiry] }

\* INSERT ... ON CONFLICT (email) DO UPDATE SET token = :token, expiry = :expiry
Upsert(table, email, token, expiry) ==
    { r \in table : r.email # email }
        \cup { [email |-> email, token |-> token, expiry |-> expiry] }

\* variant: DELETE FROM hercules_login_magic_link WHERE token = :token
DeleteRow(table, token, now) ==
    { r \in table : r.token # token }

\* UPDATE hercules_login_magic_link SET expiry = :now WHERE token = :token
UpdateExpiry(table, token, now) ==
    { IF r.token = token THEN [r EXCEPT !.expiry = now] ELSE r : r \in table }

\* ------------------------------------------------------------- messages
\* the texts send_magic_link puts in output_alert_login
NotRegistered == "Email not registered!"
EmailNotApproved == "Your email is not approved. Please contact the admin."
ErrorOccurred == "An error occurred. Please try again later."
LinkSent == "A magic login link has been sent to your email. Please click on the link from the same device."

\* the texts validate_magic_link puts in magic_login_card
InvalidLink == "Invalid or expired magic link."
UpdateFailed == "Error: Failed to validate magic link. Please try again later."
LoginError == "An error occurred while logging in. Please try again later."
AccountNotApproved == "Your account is not approved yet. Please contact the admin."
LoginSuccessful == "Login successful! Redirecting to homepage..."

\* ------------------------------------------------------ login page (layout)
\* login_layout: poll_auth disabled, email_sent_flag 0, alert hidden
\* n_intervals 1; ticks (history) counts the ticks of poll_auth since it was
\* last enabled; reloading: window.location.href has been assigned
InitialTab ==
    [ poll_disabled |-> TRUE, email_sent_flag |-> 0,
      login_disabled |-> FALSE, login_children |-> "Login",
      alert |-> "", alert_hide |-> TRUE,
      n_intervals |-> 1, ticks |-> 0, reloading |-> FALSE ]

\* email_sent_flag: the State value the call was given when it was triggered
IdleReq ==
    [ pc |-> "idle", email |-> NoEmail, token |-> NoToken, expiry |-> 0,
      email_sent_flag |-> 0 ]

\* prior, stale, watchers (history): what was true when the validation
\* started or, for watchers, the pages that polled when login_user was called;
\* mails: the number of links that had been mailed when the item was set
IdleVal ==
    [ pc |-> "idle", token |-> NoToken, now |-> 0,
      email |-> NoEmail, result |-> "", login_success |-> FALSE,
      logged_in |-> FALSE, prior |-> {}, stale |-> FALSE, search |-> <<>>,
      closed |-> FALSE, watchers |-> {}, mails |-> 0 ]

Init ==
    /\ clock = 0
    /\ users = { [email |-> DemoEmail, is_approved |-> TRUE],
                 [email |-> EveEmail, is_approved |-> TRUE],
                 [email |-> ExampleEmail, is_approved |-> TRUE] }
    /\ links = {}
    /\ nextToken = 0
    /\ mailbox = {}
    /\ tab = [i \in Tabs |-> InitialTab]
    /\ req = [i \in Tabs |-> IdleReq]
    /\ val = [v \in Validators |-> IdleVal]
    /\ session = NoSession
    /\ superseded = {}
    /\ user_sessions = {}
    /\ store = NoStore
    /\ ended = {}
    /\ repeated = [cookie |-> FALSE, store |-> FALSE, logged_out |-> FALSE]
    /\ local_storage = NoItem
    /\ served = NothingServed

\* --------------------------------------------- send_magic_link (login.py)
\* running=[...]: the values the three components take while the callback
\* runs, and the values they are given when it completes
RunningOn(t) ==
    [t EXCEPT !.login_children = "Loader", !.login_disabled = TRUE,
              !.email_sent_flag = ResendCountdown]

RunningOff(t) ==
    [t EXCEPT !.login_children = "Login", !.login_disabled = FALSE,
              !.email_sent_flag = 0]

\* variant: the error tuple also enables poll_auth and sets the countdown
ErrorStartsPolling(t, message) ==
    [t EXCEPT !.alert = message, !.alert_hide = FALSE, !.login_disabled = FALSE,
              !.poll_disabled = FALSE, !.email_sent_flag = ResendCountdown]

\* _generate_error_response: title, message, hide, color, button enabled;
\* button text, poll_auth.disabled and email_sent_flag are dash.no_update
login_generate_error_response(t, message) ==
    [t EXCEPT !.alert = message, !.alert_hide = FALSE, !.login_disabled = FALSE]

\* variant: a sent mail starts the count of the interval again
ResendRestartsCount(t) ==
    [t EXCEPT !.alert = LinkSent, !.alert_hide = FALSE,
              !.login_disabled = TRUE, !.login_children = "Loader",
              !.poll_disabled = FALSE, !.email_sent_flag = ResendCountdown,
              !.n_intervals = 1,
              !.ticks = IF t.poll_disabled THEN 0 ELSE t.ticks]

\* the tuple returned after send_email succeeded
EmailSentResponse(t) ==
    [t EXCEPT !.alert = LinkSent, !.alert_hide = FALSE,
              !.login_disabled = TRUE, !.login_children = "Loader",
              !.poll_disabled = FALSE, !.email_sent_flag = ResendCountdown,
              !.ticks = IF t.poll_disabled THEN 0 ELSE t.ticks]

\* the two raise PreventUpdate guards at the top of send_magic_link
\* variant: the guards do not test email_sent_flag
IgnoresCountdown(email, login_n_clicks, email_submit, email_sent_flag) ==
    \/ validate_email(email) # "False"
    \/ (login_n_clicks = 0 /\ email_submit = 0)

PreventsUpdate(email, login_n_clicks, email_submit, email_sent_flag) ==
    \/ validate_email(email) # "False"
    \/ (login_n_clicks = 0 /\ email_submit = 0)
    \/ email_sent_flag > 0

\* a click on login_button or Enter in email_box_login: the State values are
\* read, the running values are shown, and the guards let the call proceed
TriggerSend(i, typed) ==
    /\ req[i].pc = "idle"
    /\ \E email \in typed, clicks \in 0..1, submits \in 0..1 :
          /\ clicks = 1 => ~tab[i].login_disabled
          /\ ~PreventsUpdate(email, clicks, submits, tab[i].email_sent_flag)
          /\ req' = [req EXCEPT ![i] =
                        [IdleReq EXCEPT !.pc = "called", !.email = email,
                                        !.email_sent_flag =
                                            tab[i].email_sent_flag]]
    /\ tab' = [tab EXCEPT ![i] = RunningOn(@)]
    /\ UNCHANGED sideVars
    /\ UNCHANGED <<clock, users, links, nextToken, mailbox, val, session,
                   superseded>>

\* the same, but a guard raises PreventUpdate: no output is written and the
\* running values are reset when the call completes
TriggerPrevented(i, typed) ==
    /\ req[i].pc = "idle"
    /\ \E email \in typed, clicks \in 0..1, submits \in 0..1 :
          /\ clicks = 1 => ~tab[i].login_disabled
          /\ PreventsUpdate(email, clicks, submits, tab[i].email_sent_flag)
    /\ req' = [req EXCEPT ![i] = IdleReq]
    /\ tab' = [tab EXCEPT ![i] = RunningOff(RunningOn(@))]
    /\ UNCHANGED sideVars
    /\ UNCHANGED <<clock, users, links, nextToken, mailbox, val, session,
                   superseded>>

\* user_data.empty: "Email not registered!"
IssueUnknown(i) ==
    /\ req[i].pc = "called"
    /\ SelectUsers(req[i].email) = {}
    /\ req' = [req EXCEPT ![i] = IdleReq]
    /\ tab' = [tab EXCEPT ![i] =
                  login_generate_error_response(RunningOff(@), NotRegistered)]
    /\ UNCHANGED sideVars
    /\ UNCHANGED <<clock, users, links, nextToken, mailbox, val, session,
                   superseded>>

\* variant: no approval check
AnyAccount(u) == TRUE

\* the approval check the issuer applies to the row it read
PassesApproval(u) == u.is_approved

\* not user_data.iloc[0]["is_approved"]: "Your email is not approved."
IssueNotApproved(i) ==
    /\ req[i].pc = "called"
    /\ \E u \in SelectUsers(req[i].email) :
          /\ ~PassesApproval(u)
          /\ req' = [req EXCEPT ![i] = IdleReq]
    /\ tab' = [tab EXCEPT ![i] =
                  login_generate_error_response(RunningOff(@), EmailNotApproved)]
    /\ UNCHANGED sideVars
    /\ UNCHANGED <<clock, users, links, nextToken, mailbox, val, session,
                   superseded>>

\* the account is approved: token = str(uuid.uuid4()),
\* expiry_time = datetime.now() + timedelta(minutes=10)
IssueGenerate(i) ==
    /\ req[i].pc = "called"
    /\ nextToken < MaxTokens
    /\ \E u \in SelectUsers(req[i].email) :
          /\ PassesApproval(u)
          /\ req' = [req EXCEPT ![i] =
                        [@ EXCEPT !.pc = "insert",
                                  !.token = Uuid(nextToken + 1),
                                  !.expiry = clock + TokenLifetime]]
    /\ nextToken' = nextToken + 1
    /\ UNCHANGED sideVars
    /\ UNCHANGED <<clock, users, links, mailbox, tab, val, session,
                   superseded>>

\* pg.do_insert(insert_query, insert_params) reports success
IssueInsert(i) ==
    /\ req[i].pc = "insert"
    /\ links' = Upsert(links, req[i].email, req[i].token, req[i].expiry)
    /\ superseded' = superseded \cup
                        { r.token : r \in { x \in links : x.email = req[i].email } }
    /\ req' = [req EXCEPT ![i].pc = "send"]
    /\ UNCHANGED sideVars
    /\ UNCHANGED <<clock, users, nextToken, mailbox, tab, val, session>>

\* variant: the result of pg.do_insert is ignored
InsertFailsProceeds(i) ==
    /\ req[i].pc = "insert"
    /\ req' = [req EXCEPT ![i].pc = "send"]
    /\ UNCHANGED sideVars
    /\ UNCHANGED <<clock, users, links, nextToken, mailbox, tab, val, session,
                   superseded>>

\* pg.do_insert reports failure: nothing is written
IssueInsertFails(i) ==
    /\ req[i].pc = "insert"
    /\ req' = [req EXCEPT ![i] = IdleReq]
    /\ tab' = [tab EXCEPT ![i] =
                  login_generate_error_response(RunningOff(@), ErrorOccurred)]
    /\ UNCHANGED sideVars
    /\ UNCHANGED <<clock, users, links, nextToken, mailbox, val, session,
                   superseded>>

\* send_email(...) returned True: the mail with the link is out
IssueSend(i) ==
    /\ req[i].pc = "send"
    /\ mailbox' = mailbox \cup { [to |-> req[i].email,
                                  link |-> MagicLink(Href, req[i].token)] }
    /\ req' = [req EXCEPT ![i] = IdleReq]
    /\ tab' = [tab EXCEPT ![i] = EmailSentResponse(RunningOff(@))]
    /\ UNCHANGED sideVars
    /\ UNCHANGED <<clock, users, links, nextToken, val, session,
                   superseded>>

\* send_email(...) returned False
IssueSendFails(i) ==
    /\ req[i].pc = "send"
    /\ req' = [req EXCEPT ![i] = IdleReq]
    /\ tab' = [tab EXCEPT ![i] =
                  login_generate_error_response(RunningOff(@), ErrorOccurred)]
    /\ UNCHANGED sideVars
    /\ UNCHANGED <<clock, users, links, nextToken, mailbox, val, session,
                   superseded>>

\* except Exception: a database or mail call raised instead of returning
IssueException(i) ==
    /\ req[i].pc \in {"called", "insert", "send"}
    /\ req' = [req EXCEPT ![i] = IdleReq]
    /\ tab' = [tab EXCEPT ![i] =
                  login_generate_error_response(RunningOff(@), ErrorOccurred)]
    /\ UNCHANGED sideVars
    /\ UNCHANGED <<clock, users, links, nextToken, mailbox, val, session,
                   superseded>>

\* the login page is loaded again: its components are those of login_layout
ReloadPage(i) ==
    /\ req[i].pc = "idle"
    /\ tab[i] # InitialTab
    /\ tab' = [tab EXCEPT ![i] = InitialTab]
    /\ req' = [req EXCEPT ![i] = IdleReq]
    /\ UNCHANGED sideVars
    /\ UNCHANGED <<clock, users, links, nextToken, mailbox, val, session,
                   superseded>>

\* --------------------------------------- validate_magic_link (magic_login.py)
RECURSIVE Join(_)
Join(s) == IF s = <<>> THEN "" ELSE Head(s) \o Join(Tail(s))

\* the symbols whose text contains "token=": the parameter name itself and a
\* longer parameter name that ends with it (the text before it is dropped by
\* the split)
TokenKeys == { "token=", "mytoken=" }

\* position of the first "token=" in the query string, 0 if there is none
FirstTokenKey(search) ==
    IF \E k \in DOMAIN search : search[k] \in TokenKeys
    THEN CHOOSE k \in DOMAIN search :
            /\ search[k] \in TokenKeys
            /\ \A j \in 1..(k - 1) : search[j] \notin TokenKeys
    ELSE 0

\* search.split("token=")[1] if "token=" in search else None: the text between
\* the first "token=" and the next one (or the end); None is NoToken
ParseToken(search) ==
    LET k == FirstTokenKey(search)
        rest == SubSeq(search, k + 1, Len(search))
        n == FirstTokenKey(rest)
    IN  IF k = 0 THEN NoToken
        ELSE IF n = 0 THEN Join(rest)
        ELSE Join(SubSeq(rest, 1, n - 1))

\* query strings a visitor can present: the link of any token drawn so far,
\* a token never issued, an empty token, no token parameter, no query string,
\* a token drawn so far followed by another parameter or given under the
\* parameter name mytoken
IssuedSearches == { SearchOf(MagicLink(Href, Uuid(n))) : n \in 1..nextToken }

\* the query strings of the links that were mailed
MailedSearches == { SearchOf(m.link) : m \in mailbox }

SearchInputs ==
    IssuedSearches
        \cup { <<"?", "token=", "forged">>, <<"?", "token=">>, <<"?", "x=1">>, <<>> }
        \cup { <<"?", "token=", Uuid(n), "&x=1">> : n \in 1..nextToken }
        \cup { <<"?", "mytoken=", Uuid(n)>> : n \in 1..nextToken }

\* the results of the validations of token that have completed
PriorOutcomes(token) ==
    { val[w].result : w \in { x \in Validators :
                                 val[x].pc = "done" /\ val[x].token = token } }

\* variant: the message tells a token without a row from an expired one
ErrorNamesCause(w, message) ==
    [w EXCEPT !.pc = "done", !.email = IdleVal.email,
              !.result = IF \E r \in links : r.token = w.token
                         THEN message ELSE "Unknown magic link."]

\* _generate_error_response of magic_login.py: the card shows message, the
\* store and the pathname are dash.no_update
magic_generate_error_response(w, message) ==
    [w EXCEPT !.pc = "done", !.result = message, !.email = IdleVal.email]

\* pathname is "/magic_login": the token is parsed; without a token the error
\* is returned at once, otherwise now = datetime.now()
ValidateStart(v, searches) ==
    /\ val[v].pc = "idle"
    /\ \E search \in searches :
          LET token == ParseToken(search)
              w == [IdleVal EXCEPT !.token = token, !.search = search,
                                   !.prior = PriorOutcomes(token),
                                   !.stale = token \in superseded]
          IN  IF token = NoToken
              THEN val' = [val EXCEPT ![v] =
                             magic_generate_error_response(w, InvalidLink)]
              ELSE val' = [val EXCEPT ![v] =
                             [w EXCEPT !.pc = "lookup", !.now = clock]]
    /\ UNCHANGED sideVars
    /\ UNCHANGED <<clock, users, links, nextToken, mailbox, tab, req, session,
                   superseded>>

\* the validity test applied to the result of the SELECT
PassesLookup(token, now) == SelectValid(token, now) # {}

\* result.empty: "Invalid or expired magic link."
ValidateLookupFails(v) ==
    /\ val[v].pc = "lookup"
    /\ ~PassesLookup(val[v].token, val[v].now)
    /\ val' = [val EXCEPT ![v] = magic_generate_error_response(@, InvalidLink)]
    /\ UNCHANGED sideVars
    /\ UNCHANGED <<clock, users, links, nextToken, mailbox, tab, req, session,
                   superseded>>

\* email = result.iloc[0]["email"]
ValidateLookup(v) ==
    /\ val[v].pc = "lookup"
    /\ PassesLookup(val[v].token, val[v].now)
    /\ \E r \in SelectValid(val[v].token, val[v].now) :
          val' = [val EXCEPT ![v] =
                     [@ EXCEPT !.pc = "invalidate", !.email = r.email]]
    /\ UNCHANGED sideVars
    /\ UNCHANGED <<clock, users, links, nextToken, mailbox, tab, req, session,
                   superseded>>

\* _invalidate_token: the UPDATE is applied and reports success
ValidateInvalidate(v) ==
    /\ val[v].pc = "invalidate"
    /\ links' = UpdateExpiry(links, val[v].token, val[v].now)
    /\ val' = [val EXCEPT ![v].pc = "auth"]
    /\ UNCHANGED sideVars
    /\ UNCHANGED <<clock, users, nextToken, mailbox, tab, req, session,
                   superseded>>

\* variant: the result of _invalidate_token is ignored
InvalidateFailsProceeds(v) ==
    /\ val[v].pc = "invalidate"
    /\ val' = [val EXCEPT ![v].pc = "auth"]
    /\ UNCHANGED sideVars
    /\ UNCHANGED <<clock, users, links, nextToken, mailbox, tab, req, session,
                   superseded>>

\* _invalidate_token returns False: "Failed to validate magic link."
ValidateInvalidateFails(v) ==
    /\ val[v].pc = "invalidate"
    /\ val' = [val EXCEPT ![v] =
                  magic_generate_error_response(@, UpdateFailed)]
    /\ UNCHANGED sideVars
    /\ UNCHANGED <<clock, users, links, nextToken, mailbox, tab, req, session,
                   superseded>>

\* variant: _authenticate_user without the approval check
NoApprovalCheck(u) == TRUE

\* the approval check _authenticate_user applies to the row it read
AccountApproved(u) == u.is_approved

\* _authenticate_user: the account is read again; login_user(user) starts the
\* session and the store receives {"login_success": True}
ValidateAuthenticate(v) ==
    /\ val[v].pc = "auth"
    /\ LET found == SelectUsers(val[v].email)
       IN  IF found = {}
           THEN /\ val' = [val EXCEPT ![v] =
                              magic_generate_error_response(@, LoginError)]
                /\ UNCHANGED session
           ELSE \E u \in found :
                   IF ~AccountApproved(u)
                   THEN /\ val' = [val EXCEPT ![v] =
                                      magic_generate_error_response(@, AccountNotApproved)]
                        /\ UNCHANGED session
                   ELSE /\ val' = [val EXCEPT ![v] =
                                      [@ EXCEPT !.pc = "done", !.result = LoginSuccessful,
                                                !.email = IdleVal.email,
                                                !.logged_in = TRUE,
                                                !.login_success = TRUE,
                                                !.watchers =
                                                    { i \in Tabs :
                                                        /\ ~tab[i].poll_disabled
                                                        /\ ~tab[i].reloading }]]
                        /\ session' = u.email
    /\ UNCHANGED sideVars
    /\ UNCHANGED <<clock, users, links, nextToken, mailbox, tab, req,
                   superseded>>

\* ----------------------------------------- cross-tab notification (browser)
\* variant: the item is set for whatever the callback returned to the store
StoreAnyData(v) ==
    /\ val[v].pc = "done"
    /\ ~val[v].closed
    /\ local_storage' = "1"
    /\ val' = [val EXCEPT ![v].closed = TRUE,
                          ![v].mails = Cardinality(mailbox)]
    /\ UNCHANGED served
    /\ UNCHANGED <<user_sessions, store, ended, repeated>>
    /\ UNCHANGED <<clock, users, links, nextToken, mailbox, tab, req, session,
                   superseded>>

\* clientside callback of magic_login.py: when magic_login_store receives
\* login_success, the item hercules_logged_in is set and the window closes
magic_login_store(v) ==
    /\ val[v].pc = "done"
    /\ val[v].login_success
    /\ ~val[v].closed
    /\ local_storage' = "1"
    /\ val' = [val EXCEPT ![v].closed = TRUE,
                          ![v].mails = Cardinality(mailbox)]
    /\ UNCHANGED served
    /\ UNCHANGED <<user_sessions, store, ended, repeated>>
    /\ UNCHANGED <<clock, users, links, nextToken, mailbox, tab, req, session,
                   superseded>>

\* "Resend Email in ${email_sent_flag} seconds"
CountdownText(email_sent_flag) ==
    "Resend Email in " \o ToString(email_sent_flag) \o " seconds"

\* variant: the tick limit is tested before the item of localStorage
LimitBeforeItem(t, n_intervals, item) ==
    IF n_intervals >= PollLimit
    THEN [t EXCEPT !.poll_disabled = TRUE, !.login_disabled = TRUE,
                   !.login_children = "Reload Page"]
    ELSE IF item = "1"
    THEN [t EXCEPT !.poll_disabled = TRUE, !.reloading = TRUE]
    ELSE IF t.email_sent_flag > 0
    THEN [t EXCEPT !.poll_disabled = FALSE, !.login_disabled = TRUE,
                   !.login_children = CountdownText(t.email_sent_flag),
                   !.email_sent_flag = t.email_sent_flag - 1]
    ELSE [t EXCEPT !.poll_disabled = FALSE, !.login_disabled = FALSE,
                   !.login_children = "Resend Email", !.email_sent_flag = 0]

\* variant: the tick that ends the countdown also disables poll_auth
CountdownEndStopsPolling(t, n_intervals, item) ==
    IF item = "1"
    THEN [t EXCEPT !.poll_disabled = TRUE, !.reloading = TRUE]
    ELSE IF n_intervals >= PollLimit
    THEN [t EXCEPT !.poll_disabled = TRUE, !.login_disabled = TRUE,
                   !.login_children = "Reload Page"]
    ELSE IF t.email_sent_flag > 0
    THEN [t EXCEPT !.poll_disabled = (t.email_sent_flag = 1),
                   !.login_disabled = TRUE,
                   !.login_children = CountdownText(t.email_sent_flag),
                   !.email_sent_flag = t.email_sent_flag - 1]
    ELSE [t EXCEPT !.poll_disabled = FALSE, !.login_disabled = FALSE,
                   !.login_children = "Resend Email", !.email_sent_flag = 0]

\* variant: the tick that reaches the limit starts the count again
LimitRestartsCount(t, n_intervals, item) ==
    IF item = "1"
    THEN [t EXCEPT !.poll_disabled = TRUE, !.reloading = TRUE]
    ELSE IF n_intervals >= PollLimit
    THEN [t EXCEPT !.poll_disabled = FALSE, !.n_intervals = 1, !.ticks = 0]
    ELSE IF t.email_sent_flag > 0
    THEN [t EXCEPT !.poll_disabled = FALSE, !.login_disabled = TRUE,
                   !.login_children = CountdownText(t.email_sent_flag),
                   !.email_sent_flag = t.email_sent_flag - 1]
    ELSE [t EXCEPT !.poll_disabled = FALSE, !.login_disabled = FALSE,
                   !.login_children = "Resend Email", !.email_sent_flag = 0]

\* the function of the clientside callback of login.py: what the page shows
\* after the tick with this n_intervals and this item of localStorage
PollOutputs(t, n_intervals, item) ==
    IF item = "1"
    THEN [t EXCEPT !.poll_disabled = TRUE, !.reloading = TRUE]
    ELSE IF n_intervals >= PollLimit
    THEN [t EXCEPT !.poll_disabled = TRUE, !.login_disabled = TRUE,
                   !.login_children = "Reload Page"]
    ELSE IF t.email_sent_flag > 0
    THEN [t EXCEPT !.poll_disabled = FALSE, !.login_disabled = TRUE,
                   !.login_children = CountdownText(t.email_sent_flag),
                   !.email_sent_flag = t.email_sent_flag - 1]
    ELSE [t EXCEPT !.poll_disabled = FALSE, !.login_disabled = FALSE,
                   !.login_children = "Resend Email", !.email_sent_flag = 0]

\* one tick of the enabled interval poll_auth: n_intervals is increased by
\* one and the callback runs; a set item is removed
poll_auth(i) ==
    /\ ~tab[i].poll_disabled
    /\ ~tab[i].reloading
    /\ LET n_intervals == tab[i].n_intervals + 1
           t == [tab[i] EXCEPT !.n_intervals = n_intervals, !.ticks = @ + 1]
       IN  tab' = [tab EXCEPT ![i] = PollOutputs(t, n_intervals, local_storage)]
    /\ local_storage' = IF local_storage = "1" THEN NoItem ELSE local_storage
    /\ UNCHANGED served
    /\ UNCHANGED <<user_sessions, store, ended, repeated>>
    /\ UNCHANGED <<clock, users, links, nextToken, mailbox, req, val, session,
                   superseded>>

\* -------------------------------------------- flask-login session (cookie)
\* load_user: the account of the id kept in the session, NoUser for None;
\* the model keeps the email of the account as its id
load_user(user_id) ==
    IF \E u \in users : u.email = user_id
    THEN CHOOSE u \in users : u.email = user_id
    ELSE NoUser

\* a request that carries the cookie is authenticated: the session holds a
\* user id and load_user finds its account
CookieAuthenticated == session # NoSession /\ load_user(session) # NoUser

\* variant: logout_user is not called
KeepSession(current) == current

\* logout_user(): the user id is removed from the session, if there is one
logout_user(current) == NoSession

\* update_logout: the logout button was clicked (logout_n_clicks is set)
update_logout ==
    /\ session' = logout_user(session)
    /\ repeated' = [repeated EXCEPT !.cookie = @ \/ session = NoSession,
                                    !.logged_out = TRUE]
    /\ UNCHANGED served
    /\ UNCHANGED <<user_sessions, store, ended, local_storage>>
    /\ UNCHANGED <<clock, users, links, nextToken, mailbox, tab, req, val,
                   superseded>>

\* ------------------------------------------------- sessions of dash_app.py
\* the users load_users creates when users.csv does not exist
DefaultUsers ==
    { [username |-> "admin", password |-> "admin123", is_approved |-> TRUE],
      [username |-> "demo", password |-> "demo123", is_approved |-> TRUE] }

\* what is typed in username-input and password-input
Passwords == { "demo123", "admin123", "" }

\* authenticate_user: the approved users with this name and password
authenticate_user(username, password) ==
    { u \in DefaultUsers : /\ u.username = username /\ u.password = password
                           /\ u.is_approved }

\* create_session: hashlib.md5(f"{username}{datetime.now()}").hexdigest(),
\* one id per user name and time
SessionId(username, now) == <<username, now>>

\* the time at which a session id was made
Created(session_id) == session_id[2]

\* is_authenticated: session_id in user_sessions
is_authenticated(session_id) == session_id \in user_sessions

\* handle_login: the login button was clicked; an empty field or a wrong
\* password writes None to session-store
handle_login(usernames) ==
    /\ \E username \in usernames \cup {""}, password \in Passwords :
          IF username = "" \/ password = ""
          THEN /\ store' = NoStore
               /\ UNCHANGED <<user_sessions, ended>>
          ELSE IF authenticate_user(username, password) # {}
          THEN /\ user_sessions' = user_sessions \cup {SessionId(username, clock)}
               /\ store' = SessionId(username, clock)
               /\ ended' = ended \ {SessionId(username, clock)}
          ELSE /\ store' = NoStore
               /\ UNCHANGED <<user_sessions, ended>>
    /\ UNCHANGED served
    /\ UNCHANGED <<repeated, local_storage>>
    /\ UNCHANGED <<clock, users, links, nextToken, mailbox, tab, req, val,
                   session, superseded>>

\* variant: without a session, handle_logout writes an empty session record
EmptySessionStore(current) ==
    IF current = NoStore THEN <<"", 0>> ELSE NoStore

\* the value handle_logout returns for session-store
LogoutStore(current) == NoStore

\* handle_logout: the logout button was clicked; session-store becomes None
\* and the pathname "/"; user_sessions is not touched
handle_logout ==
    /\ store' = LogoutStore(store)
    /\ ended' = IF store = NoStore THEN ended ELSE ended \cup {store}
    /\ repeated' = [repeated EXCEPT !.store = @ \/ store = NoStore]
    /\ UNCHANGED served
    /\ UNCHANGED <<user_sessions, local_storage>>
    /\ UNCHANGED <<clock, users, links, nextToken, mailbox, tab, req, val,
                   session, superseded>>

\* ------------------------------------------- protected routes of dash_app.py
\* variant: any session-store data is accepted
AnySessionData(session_data) == session_data # NoStore

\* "session_data and is_authenticated(session_data.get("session_id"))"
Authenticated(session_data) ==
    session_data # NoStore /\ is_authenticated(session_data)

\* the session-store data a request can carry: none, the data of the browser,
\* the data of a session that was logged out, data with an id never created
RequestData == {NoStore, store, <<"forged", 0>>} \cup ended

\* update_dashboard, clear_filters, display_article_info,
\* sync_date_filters_with_range_slider, clear_article_info_on_filter_change
DataCallbacks ==
    { "update_dashboard", "clear_filters", "display_article_info",
      "sync_date_filters_with_range_slider",
      "clear_article_info_on_filter_change" }

\* display_page: the dashboard layout or the login layout
display_page ==
    /\ \E session_data \in RequestData :
          served' = [ route |-> "display_page", session_data |-> session_data,
                      response |-> IF Authenticated(session_data)
                                   THEN "dashboard" ELSE "login" ]
    /\ UNCHANGED <<user_sessions, store, ended, repeated, local_storage>>
    /\ UNCHANGED <<clock, users, links, nextToken, mailbox, tab, req, val,
                   session, superseded>>

\* a data callback: PreventUpdate unless the request is authenticated
data_callback(name) ==
    /\ \E session_data \in RequestData :
          served' = [ route |-> name, session_data |-> session_data,
                      response |-> IF ~Authenticated(session_data)
                                   THEN "PreventUpdate" ELSE "output" ]
    /\ UNCHANGED <<user_sessions, store, ended, repeated, local_storage>>
    /\ UNCHANGED <<clock, users, links, nextToken, mailbox, tab, req, val,
                   session, superseded>>

\* ------------------------------------------------------------- environment
\* hours pass
LongTick ==
    /\ clock < MaxTicks * SessionTickHours * 60
    /\ clock' = clock + SessionTickHours * 60
    /\ UNCHANGED sideVars
    /\ UNCHANGED <<users, links, nextToken, mailbox, tab, req, val, session,
                   superseded>>

\* time passes
Tick ==
    /\ clock < MaxTime
    /\ clock' = clock + TickMinutes
    /\ UNCHANGED sideVars
    /\ UNCHANGED <<users, links, nextToken, mailbox, tab, req, val, session,
                   superseded>>

\* an administrator approves an account or withdraws the approval
SetApproved(email, approved) ==
    /\ \E u \in users : u.email = email /\ u.is_approved # approved
    /\ users' = { IF u.email = email THEN [u EXCEPT !.is_approved = approved]
                  ELSE u : u \in users }
    /\ UNCHANGED sideVars
    /\ UNCHANGED <<clock, links, nextToken, mailbox, tab, req, val, session,
                   superseded>>

\* the steps of a login page that asks for a link and is served
IssueServed(i, typed) ==
    \/ TriggerSend(i, typed)
    \/ IssueGenerate(i)
    \/ IssueInsert(i)
    \/ IssueSend(i)
    \/ ReloadPage(i)

\* the steps of a login page whose request is refused or fails
IssueRefused(i, typed) ==
    \/ TriggerPrevented(i, typed)
    \/ IssueUnknown(i)
    \/ IssueNotApproved(i)
    \/ IssueInsertFails(i)
    \/ IssueSendFails(i)
    \/ IssueException(i)

\* the steps of a window that follows a link
Validate(v, searches) ==
    \/ ValidateStart(v, searches)
    \/ ValidateLookupFails(v)
    \/ ValidateLookup(v)
    \/ ValidateInvalidate(v)
    \/ ValidateInvalidateFails(v)
    \/ ValidateAuthenticate(v)

Environment ==
    \/ Tick
    \/ \E b \in BOOLEAN : SetApproved(DemoEmail, b)

\* Validation protocol: one login page on which the address of the demo
\* account is typed, two windows that each follow one of the links issued.
Next ==
    \/ IssueServed("tabA", {DemoEmail})
    \/ IssueNotApproved("tabA")
    \/ \E v \in Validators : Validate(v, IssuedSearches)
    \/ Environment

Spec == Init /\ [][Next]_vars

\* Issuance: one login page with every kind of input around the demo account,
\* one window that follows a link.
NextIssue ==
    \/ IssueServed("tabA", EmailInputs)
    \/ IssueRefused("tabA", EmailInputs)
    \/ Validate("linkA", IssuedSearches)
    \/ Environment

SpecIssue == Init /\ [][NextIssue]_vars

\* Two accounts: two login pages on which both addresses are typed and served,
\* one window that follows a link.
NextAccounts ==
    \/ \E i \in Tabs : IssueServed(i, {DemoEmail, EveEmail})
    \/ Validate("linkA", IssuedSearches)
    \/ Tick

SpecAccounts == Init /\ [][NextAccounts]_vars

\* Links: one login page that serves the demo account, two windows that
\* present any query string.
NextLinks ==
    \/ IssueServed("tabA", {DemoEmail})
    \/ \E v \in Validators : Validate(v, SearchInputs)
    \/ Tick

SpecLinks == Init /\ [][NextLinks]_vars
\* Sessions of dash_app.py: logins with the default users, logouts, hours.
NextDash ==
    \/ handle_login({"demo", "admin"})
    \/ handle_logout
    \/ LongTick

SpecDash == Init /\ [][NextDash]_vars

\* Login and logout: one login page that asks once for a link for the demo
\* account, one window that follows it, the logout buttons of both
\* applications.
NextSession ==
    \/ TriggerSend("tabA", {DemoEmail})
    \/ IssueGenerate("tabA")
    \/ IssueInsert("tabA")
    \/ IssueSend("tabA")
    \/ Validate("linkA", IssuedSearches)
    \/ update_logout
    \/ handle_login({"demo"})
    \/ handle_logout
    \/ Tick

SpecSession == Init /\ [][NextSession]_vars
\* Concurrent issuance: two login pages that each ask once for a link for the
\* demo account, two windows that each follow one of the links.
NextRace ==
    \/ \E i \in Tabs : \/ TriggerSend(i, {DemoEmail})
                        \/ IssueGenerate(i)
                        \/ IssueInsert(i)
                        \/ IssueSend(i)
    \/ \E v \in Validators : Validate(v, IssuedSearches)
    \/ Tick

SpecRace == Init /\ [][NextRace]_vars
\* Polling: one login page that asks once for a link for the demo account and
\* polls, one window that follows the link and sets the item.
NextPoll ==
    \/ TriggerSend("tabA", {DemoEmail})
    \/ IssueGenerate("tabA")
    \/ IssueInsert("tabA")
    \/ IssueSend("tabA")
    \/ Validate("linkA", IssuedSearches)
    \/ magic_login_store("linkA")
    \/ poll_auth("tabA")

SpecPoll == Init /\ [][NextPoll]_vars

\* Routes: logins and logouts with the demo user, requests to display_page and
\* to the data callbacks with any session-store data.
NextRoutes ==
    \/ handle_login({"demo"})
    \/ handle_logout
    \/ display_page
    \/ \E name \in DataCallbacks : data_callback(name)
    \/ LongTick

SpecRoutes == Init /\ [][NextRoutes]_vars

\* Binding: two login pages on which links are asked for for two accounts,
\* two windows that each follow one of the links.
NextBinding ==
    \/ \E i \in Tabs : \/ TriggerSend(i, {DemoEmail, EveEmail})
                        \/ IssueGenerate(i)
                        \/ IssueInsert(i)
                        \/ IssueSend(i)
    \/ \E v \in Validators : Validate(v, IssuedSearches)

SpecBinding == Init /\ [][NextBinding]_vars

\* Notification: links are asked for on one page and two windows follow
\* links of every kind; the approval of the account changes, time passes.
NextFlag ==
    \/ TriggerSend("tabA", {DemoEmail})
    \/ IssueGenerate("tabA")
    \/ IssueInsert("tabA")
    \/ IssueSend("tabA")
    \/ \E v \in Validators : Validate(v, SearchInputs)
    \/ \E v \in Validators : magic_login_store(v)
    \/ \E b \in BOOLEAN : SetApproved(DemoEmail, b)
    \/ Tick

SpecFlag == Init /\ [][NextFlag]_vars

\* the first ticks of the interval of page i
EarlyTick(i) ==
    /\ tab[i].n_intervals <= MaxPolls
    /\ poll_auth(i)

\* Reloads: one login page that asks for links, polls and is reloaded by the
\* user, one window that follows a link that was mailed.
NextStale ==
    \/ TriggerSend("tabA", {DemoEmail})
    \/ IssueGenerate("tabA")
    \/ IssueInsert("tabA")
    \/ IssueSend("tabA")
    \/ ReloadPage("tabA")
    \/ EarlyTick("tabA")
    \/ Validate("linkA", MailedSearches)
    \/ magic_login_store("linkA")

SpecStale == Init /\ [][NextStale]_vars

\* Two pages: the same browser has two login pages open, a link is asked for
\* on each, one window follows a link, both pages poll.
NextTabs ==
    \/ \E i \in Tabs :
          \/ TriggerSend(i, {DemoEmail})
          \/ IssueGenerate(i)
          \/ IssueInsert(i)
          \/ IssueSend(i)
          \/ EarlyTick(i)
    \/ Validate("linkA", IssuedSearches)
    \/ magic_login_store("linkA")

SpecTabs == Init /\ [][NextTabs]_vars

\* Polling to the limit: one login page that asks for links for the demo
\* account and polls while no link is followed.
NextTimeout ==
    \/ TriggerSend("tabA", {DemoEmail})
    \/ IssueGenerate("tabA")
    \/ IssueInsert("tabA")
    \/ IssueSend("tabA")
    \/ poll_auth("tabA")

SpecTimeout == Init /\ [][NextTimeout]_vars

\* Countdown: the same page, on which clicks and submits are also made while
\* the guards of send_magic_link refuse them.
NextCountdown ==
    \/ NextTimeout
    \/ TriggerPrevented("tabA", {DemoEmail, NoEmail})

SpecCountdown == Init /\ [][NextCountdown]_vars

\* the browser fires the enabled interval every second (interval=1000)
FairTimeout == SpecTimeout /\ WF_vars(poll_auth("tabA"))

TypeOK ==
    /\ clock \in 0..(MaxTicks * SessionTickHours * 60)
    /\ nextToken \in 0..MaxTokens
    /\ \A r \in links : r.token \in Tokens /\ r.expiry \in 0..(MaxTime + TokenLifetime)

\* ================================================================ claims
Done(v) == val[v].pc = "done"

\* the validation of v got past the invalidation of its token
Consumed(v) ==
    \/ val[v].pc = "auth"
    \/ Done(v) /\ val[v].result \in {LoginSuccessful, AccountNotApproved, LoginError}

\* v reported a failure and started no session
Refused(v) ==
    /\ val[v].result = InvalidLink
    /\ ~val[v].logged_in
    /\ ~val[v].login_success

\* the rows of token
RowsOf(token) == { r \in links : r.token = token }

\* v takes the step that evaluates its SELECT
LookupStep(v) == val[v].pc = "lookup" /\ val'[v].pc # "lookup"

\* C1: two validations of the same token never both succeed.
C1_AtMostOneSuccess ==
    \A v, w \in Validators :
        (v # w /\ Done(v) /\ Done(w) /\ val[v].token = val[w].token)
            => ~(val[v].result = LoginSuccessful /\ val[w].result = LoginSuccessful)

\* C2: a validation that starts after a validation of the same token has
\* completed successfully fails as invalid or expired and starts no session.
C2_NoSecondSuccess ==
    \A v \in Validators :
        (Done(v) /\ LoginSuccessful \in val[v].prior) => Refused(v)

\* C2 witness: a retry made in the clock instant of the successful
\* validation has been refused.
C2_Witness ==
    \E v, w \in Validators :
        /\ Done(v) /\ LoginSuccessful \in val[v].prior /\ val[v].result = InvalidLink
        /\ Done(w) /\ val[w].result = LoginSuccessful /\ val[w].token = val[v].token
        /\ val[w].now = val[v].now

\* C3: (a) a validation that starts after a later token was written for the
\* same email fails; (b) a row leaves the table or changes only when an upsert
\* for its email or an invalidation of its token is applied; (c) a lookup whose
\* token has a row with expiry after the validation's time passes.
C3_StaleRefused ==
    \A v \in Validators : (Done(v) /\ val[v].stale) => Refused(v)

C3_RowsPersist ==
    \A r \in links :
        \/ r \in links'
        \/ \E i \in Tabs : /\ req[i].pc = "insert" /\ req'[i].pc = "send"
                           /\ req[i].email = r.email
        \/ \E v \in Validators : /\ val[v].pc = "invalidate" /\ val'[v].pc = "auth"
                                 /\ val[v].token = r.token

C3_ValidPasses ==
    \A v \in Validators :
        (LookupStep(v) /\ \E r \in RowsOf(val[v].token) : r.expiry > val[v].now)
            => val'[v].pc = "invalidate"

\* C3: after a second issuance for an email only the newer token validates:
\* the older one is refused, the newer row stays valid and its lookup passes.
C3_OnlyNewestValid ==
    /\ []C3_StaleRefused
    /\ [][C3_RowsPersist /\ C3_ValidPasses]_vars

\* C3 witness: two links were mailed to one address; the older one was
\* refused after the newer one was written, the newer one logged in.
C3_Witness ==
    \E v, w \in Validators, m1, m2 \in mailbox :
        /\ m1.to = m2.to /\ m1 # m2
        /\ SearchOf(m1.link) = <<"?", "token=", val[v].token>>
        /\ SearchOf(m2.link) = <<"?", "token=", val[w].token>>
        /\ Done(v) /\ val[v].stale /\ val[v].result = InvalidLink
        /\ Done(w) /\ val[w].result = LoginSuccessful

\* C4: a lookup whose token has a row with expiry at or before the time of
\* the validation fails, logs nobody in and changes no row and no session.
C4_ExpiredStep ==
    \A v \in Validators :
        (LookupStep(v) /\ \E r \in RowsOf(val[v].token) : r.expiry <= val[v].now)
            => /\ Done(v)'
               /\ Refused(v)'
               /\ links' = links
               /\ session' = session

\* C4: every lookup of a token whose expiry is not after the validation's time
\* is refused without any change to the rows or the session.
C4_ExpiredRefused == [][C4_ExpiredStep]_vars

\* C4 witness: a token nobody consumed was refused at the instant of its
\* expiry by one window and after it by the other.
C4_Witness ==
    \E v, w \in Validators, r \in links :
        /\ v # w
        /\ ~Consumed(v) /\ ~Consumed(w)
        /\ r.token = val[v].token /\ r.token = val[w].token
        /\ Done(v) /\ val[v].result = InvalidLink /\ val[v].now = r.expiry
        /\ Done(w) /\ val[w].result = InvalidLink /\ val[w].now > r.expiry

\* C5: the table of login tokens never holds two rows for one email.
C5_OneRowPerEmail ==
    \A r, s \in links : r.email = s.email => r = s

\* C5 witness: two login pages have mailed a link to the same address, a
\* token of that address was replaced, and the table holds one row for it.
C5_Witness ==
    \E m1, m2 \in mailbox :
        /\ m1 # m2 /\ m1.to = m2.to
        /\ superseded # {}
        /\ Cardinality({ r \in links : r.email = m1.to }) = 1

\* the account v is about to read
AccountOf(v) == SelectUsers(val[v].email)

\* C6: (a) a validation that ended as not approved logged nobody in, set no
\* success flag and left its token with an expiry that is not in the future;
\* (b) the step that finds the account unapproved reports not approved and
\* leaves the session alone; (c) a validation of the same token that starts
\* after it fails as invalid or expired.
C6_NotApprovedState ==
    \A v \in Validators :
        (Done(v) /\ val[v].result = AccountNotApproved)
            => /\ ~val[v].logged_in
               /\ ~val[v].login_success
               /\ \A r \in RowsOf(val[v].token) : r.expiry <= clock

C6_NotApprovedStep ==
    \A v \in Validators :
        (/\ val[v].pc = "auth" /\ val'[v].pc = "done"
         /\ \E u \in AccountOf(v) : ~u.is_approved)
            => /\ val'[v].result = AccountNotApproved
               /\ session' = session

C6_LaterRefused ==
    \A v \in Validators :
        (Done(v) /\ AccountNotApproved \in val[v].prior) => Refused(v)

\* C6: a validation that finds the account unapproved logs nobody in and has
\* nevertheless consumed the token.
C6_ConsumedThoughNotApproved ==
    /\ [](C6_NotApprovedState /\ C6_LaterRefused)
    /\ [][C6_NotApprovedStep]_vars

\* C6 witness: a link was refused as not approved; the account was approved
\* again and the same link, followed before its ten minutes were over, was
\* refused as invalid.
C6_Witness ==
    \E v, w \in Validators :
        /\ Done(v) /\ val[v].result = AccountNotApproved
        /\ Done(w) /\ val[w].token = val[v].token
        /\ AccountNotApproved \in val[w].prior /\ val[w].result = InvalidLink
        /\ val[w].now < TokenLifetime
        /\ \A u \in users : u.is_approved
        /\ session = NoSession

\* the request of tab i leaves position pc without an exception being raised
Returns(i, pc) ==
    /\ req[i].pc = pc
    /\ req'[i] # req[i]
    /\ ~IssueException(i)

\* C7: a request for an address whose account is not approved ends with the
\* not-approved message, writes no token row and sends no mail.
C7_UnapprovedStep ==
    \A i \in Tabs :
        (Returns(i, "called") /\ \E u \in SelectUsers(req[i].email) : ~u.is_approved)
            => /\ req'[i] = IdleReq
               /\ tab'[i].alert = EmailNotApproved /\ ~tab'[i].alert_hide
               /\ links' = links
               /\ mailbox' = mailbox
               /\ nextToken' = nextToken

\* C7: every request for an unapproved account is refused as not approved
\* with no row written and no mail sent.
C7_UnapprovedRefused == [][C7_UnapprovedStep]_vars

\* C7 witness: the request of an unapproved account has been refused and
\* there is neither a token row nor a mail.
C7_Witness ==
    /\ \E u \in users : u.email = DemoEmail /\ ~u.is_approved
    /\ req["tabA"] = IdleReq
    /\ tab["tabA"].alert = EmailNotApproved
    /\ links = {} /\ mailbox = {} /\ nextToken = 0

\* the accounts whose email equals email up to letter case
MatchesIgnoringCase(email) == { u \in users : Lower(u.email) = Lower(email) }

\* C8: a request is refused as not registered exactly when no account has
\* its address up to letter case.
C8_LookupStep ==
    \A i \in Tabs :
        Returns(i, "called")
            => (tab'[i].alert = NotRegistered /\ req'[i] = IdleReq
                    <=> MatchesIgnoringCase(req[i].email) = {})

\* C8: the account lookup of send_magic_link ignores letter case.
C8_CaseInsensitiveLookup == [][C8_LookupStep]_vars

\* C9: (a) the token drawn is new and its expiry is the time of the draw, in
\* minutes, plus 10; (b) the write leaves exactly one row for the address, holding
\* that token and that expiry; (c) the mail goes to the address and its link
\* carries, as the token parameter, the token of the row written for it.
C9_GenerateStep ==
    \A i \in Tabs :
        Returns(i, "called") /\ req'[i].pc = "insert"
            => /\ req'[i].expiry = clock + 10
               /\ req'[i].token # NoToken
               /\ req'[i].token \notin superseded \cup { r.token : r \in links }
               /\ req'[i].email = req[i].email

C9_InsertStep ==
    \A i \in Tabs :
        Returns(i, "insert") /\ req'[i].pc = "send"
            => { r \in links' : r.email = req[i].email }
                  = { [email |-> req[i].email, token |-> req[i].token,
                       expiry |-> req[i].expiry] }

C9_SendStep ==
    \A i \in Tabs :
        Returns(i, "send") /\ mailbox' # mailbox
            => \E m \in mailbox' \ mailbox :
                  /\ mailbox' = mailbox \cup {m}
                  /\ m.to = req[i].email
                  /\ ParseToken(SearchOf(m.link)) = req[i].token
                  /\ \E r \in links : r.email = m.to /\ r.token = req[i].token

\* C9: every issuance stores a new token with expiry 10 minutes after its
\* draw, as the only row of the email, and mails a link carrying that token.
C9_FreshTokenStored == [][C9_GenerateStep /\ C9_InsertStep /\ C9_SendStep]_vars

\* C9 witness: a second link was mailed to an address; its row holds the
\* second token with the expiry computed for it, after the first one's.
C9_Witness ==
    \E m1, m2 \in mailbox, r \in links :
        /\ m1.to = m2.to /\ m1 # m2
        /\ r.email = m2.to
        /\ ParseToken(SearchOf(m2.link)) = r.token
        /\ ParseToken(SearchOf(m1.link)) \in superseded
        /\ r.expiry = clock + TokenLifetime
        /\ clock > 0

\* C10: when send_email reports failure the page shows the error, the call
\* neither enables polling nor leaves a countdown, and the row written for the
\* request stays as it is; a lookup of a token that was never mailed passes
\* while its row is unexpired.
C10_DeliveryFailedStep ==
    \A i \in Tabs :
        (req[i].pc = "send" /\ req'[i] # req[i] /\ mailbox' = mailbox)
            => /\ req'[i] = IdleReq
               /\ tab'[i].alert = ErrorOccurred /\ ~tab'[i].alert_hide
               /\ tab'[i].poll_disabled = tab[i].poll_disabled
               /\ tab'[i].email_sent_flag = 0
               /\ ~tab'[i].login_disabled
               /\ links' = links
               /\ \E r \in links' : r.email = req[i].email /\ r.token = req[i].token

\* a link that was never mailed is looked up while its row is unexpired
C10_UndeliveredStep ==
    \A v \in Validators :
        (/\ LookupStep(v)
         /\ \A m \in mailbox : ParseToken(SearchOf(m.link)) # val[v].token
         /\ \E r \in RowsOf(val[v].token) : r.expiry > val[v].now)
            => val'[v].pc = "invalidate"

\* C10: a failed delivery is shown as an error, starts neither polling nor a
\* countdown, and leaves a valid token that a validation accepts.
C10_DeliveryFailure == [][C10_DeliveryFailedStep /\ C10_UndeliveredStep]_vars

\* C10 witness: the page shows the error of a failed delivery, nothing was
\* mailed, and the token written for the request has logged its holder in.
C10_Witness ==
    /\ req["tabA"] = IdleReq
    /\ tab["tabA"].alert = ErrorOccurred
    /\ tab["tabA"].poll_disabled /\ tab["tabA"].email_sent_flag = 0
    /\ mailbox = {}
    /\ Done("linkA") /\ val["linkA"].result = LoginSuccessful
    /\ session = DemoEmail

\* what the window of v shows and stores: the text of magic_login_card and
\* the data written to magic_login_store (FALSE: dash.no_update)
Outputs(v) == [card |-> val[v].result, store |-> val[v].login_success]

\* C11: a lookup that fails answers with the one invalid-or-expired text and
\* no other output, whether the token has no row or a row that is expired or
\* consumed; no row and no session changes.
C11_FailedLookupStep ==
    \A v \in Validators :
        (LookupStep(v) /\ Done(v)')
            => /\ RowsOf(val[v].token) = {}
                    => Outputs(v)' = [card |-> InvalidLink, store |-> FALSE]
               /\ RowsOf(val[v].token) # {}
                    => Outputs(v)' = [card |-> InvalidLink, store |-> FALSE]
               /\ links' = links
               /\ session' = session

C11_SameResponse == [][C11_FailedLookupStep]_vars

\* C11 witness: one window presented a token that was never drawn, the other
\* a token whose row is there but not valid any more; both show the same.
C11_Witness ==
    \E v, w \in Validators :
        /\ Done(v) /\ val[v].token \notin Tokens /\ val[v].token # NoToken
        /\ Done(w) /\ \E r \in RowsOf(val[w].token) : r.expiry <= val[w].now
        /\ ~Consumed(w)
        /\ Outputs(v) = Outputs(w)
        /\ Outputs(v).card = InvalidLink

\* the query string has a parameter named token with a value
HasTokenParameter(search) ==
    \E k \in DOMAIN search : search[k] = "token=" /\ k < Len(search)

\* C12: a window whose query string has no token parameter, or an empty one,
\* is refused as invalid or expired and starts no session.
C12_MissingTokenRefused ==
    \A v \in Validators :
        (Done(v) /\ ~HasTokenParameter(val[v].search)) => Refused(v)

\* C13: no session id is reported authenticated 36 hours after it was made
\* or later.
C13_AbsoluteLifetime ==
    \A sid \in user_sessions :
        clock >= Created(sid) + SessionLifetime => ~is_authenticated(sid)

\* C14: a session id whose holder has logged out is not reported
\* authenticated.
C14_EndedNotAuthenticated ==
    \A sid \in ended : ~is_authenticated(sid)

\* the sessions as the server and the browser hold them
SessionState == <<session, store, user_sessions>>

\* C15: a logout performed when the session is already ended, or when there
\* never was one, changes nothing in the session state of server and browser.
C15_LogoutStep ==
    /\ (update_logout /\ session = NoSession) => SessionState' = SessionState
    /\ (handle_logout /\ store = NoStore) => SessionState' = SessionState

C15_LogoutIdempotent == [][C15_LogoutStep]_vars

\* C15 witness: both logout buttons were used with no session to end, after
\* a link had logged its holder in and a session id had been logged out.
C15_Witness ==
    /\ repeated.cookie /\ repeated.store
    /\ Done("linkA") /\ val["linkA"].result = LoginSuccessful
    /\ ended # {}
    /\ session = NoSession /\ store = NoStore

C16_LookupStep ==
    (LookupStep("linkA") /\ \E r \in RowsOf(val["linkA"].token) :
                                r.expiry > val["linkA"].now)
        => val'["linkA"].pc = "invalidate"

C16_SuccessStep ==
    (val["linkA"].pc = "auth" /\ val'["linkA"].result = LoginSuccessful)
        => /\ \E r \in links : r.token = val["linkA"].token /\ r.email = DemoEmail
           /\ session' = DemoEmail
           /\ CookieAuthenticated'

C16_NoSessionBefore ==
    CookieAuthenticated
        => /\ session = DemoEmail
           /\ Done("linkA") /\ val["linkA"].result = LoginSuccessful

C16_LogoutStep == update_logout => ~CookieAuthenticated'

C17_LastWriteHeld ==
    /\ \A r, q \in links : r.email = q.email => r = q
    /\ \A r \in links : r.token \notin superseded

C17_UpsertStep ==
    \A i \in Tabs :
        (req[i].pc = "insert" /\ req'[i].pc = "send")
            => /\ [email |-> req[i].email, token |-> req[i].token,
                    expiry |-> req[i].expiry] \in links'
               /\ Cardinality({ r \in links' : r.email = req[i].email }) = 1

C17_LoserRefused ==
    \A v \in Validators :
        (Done(v) /\ val[v].stale)
            => /\ val[v].result = InvalidLink
               /\ ~val[v].logged_in /\ ~val[v].login_success

C17_WinnerStep ==
    \A v \in Validators :
        (/\ LookupStep(v)
         /\ \E r \in links : /\ r.token = val[v].token /\ r.expiry > val[v].now)
            => val'[v].pc = "invalidate" /\ val'[v].email = DemoEmail

C17_LaterWriteWins ==
    /\ [](C17_LastWriteHeld /\ C17_LoserRefused)
    /\ [][C17_UpsertStep /\ C17_WinnerStep]_vars

\* C17 witness: two login pages asked at the same time; the token drawn
\* first was written last and is the one in the table; both mails are out; a
\* window that then followed the other link was refused, a window that
\* followed this one was logged in.
C17_Witness ==
    /\ \A i \in Tabs : req[i] = IdleReq
    /\ Cardinality(mailbox) = 2
    /\ Uuid(2) \in superseded
    /\ \E r \in links : r.token = Uuid(1) /\ r.email = DemoEmail
    /\ \E v, w \in Validators :
          /\ Done(v) /\ val[v].token = Uuid(2) /\ val[v].stale
          /\ val[v].result = InvalidLink
          /\ Done(w) /\ val[w].token = Uuid(1)
          /\ val[w].result = LoginSuccessful

\* the call of tab i ends in this step without a mail being sent
EndsWithoutMail(i) ==
    /\ req[i].pc \in {"called", "insert", "send"}
    /\ req'[i] = IdleReq
    /\ mailbox' = mailbox

\* C18: (a) polling is switched on only by the step that sends the mail;
\* (b) a call that ends without a mail leaves polling as it was and the
\* countdown at the value it had when the call began, which is 0; (c) a
\* suppressed call leaves polling and the countdown as they were.
C18_IssuedStep ==
    \A i \in Tabs :
        (tab[i].poll_disabled /\ ~tab'[i].poll_disabled)
            => /\ req[i].pc = "send" /\ mailbox' # mailbox
               /\ tab'[i].email_sent_flag = 60
               /\ tab'[i].login_disabled

C18_FailedStep ==
    \A i \in Tabs :
        EndsWithoutMail(i)
            => /\ tab'[i].poll_disabled = tab[i].poll_disabled
               /\ tab'[i].email_sent_flag = 0

C18_SuppressedStep ==
    \A i \in Tabs :
        TriggerPrevented(i, EmailInputs)
            => /\ tab'[i].poll_disabled = tab[i].poll_disabled
               /\ tab'[i].email_sent_flag = tab[i].email_sent_flag

C18_IssuedOnlyBySuccess ==
    [][C18_IssuedStep /\ C18_FailedStep /\ C18_SuppressedStep]_vars

\* the tick of tab i
PollStep(i) == tab'[i].n_intervals = tab[i].n_intervals + 1

\* C19: a tick that finds the item set removes it, stops polling and starts
\* the reload, whatever n_intervals and the countdown are.
C19_FlagStep ==
    \A i \in Tabs :
        (PollStep(i) /\ local_storage = "1")
            => /\ local_storage' = NoItem
               /\ tab'[i].poll_disabled
               /\ tab'[i].reloading

C19_FlagObserved == [][C19_FlagStep]_vars

\* C19 witness: the item was found at the tick that reached the limit of
\* 600 and the page is reloading.
C19_Witness ==
    /\ tab["tabA"].reloading /\ tab["tabA"].poll_disabled
    /\ tab["tabA"].n_intervals = PollLimit
    /\ local_storage = NoItem
    /\ val["linkA"].closed

\* C20: a page that shows Reload Page has seen 600 ticks or more since its
\* polling was switched on.
C20_TimedOutAfter600 ==
    \A i \in Tabs :
        tab[i].login_children = "Reload Page" => tab[i].ticks >= 600

\* the page of tab i has shown Reload Page on reaching the tick limit and has
\* not started a reload
TimedOut(i) ==
    /\ tab[i].n_intervals >= PollLimit
    /\ tab[i].poll_disabled
    /\ ~tab[i].reloading

\* C21: once a page has timed out its polling stays disabled and no tick runs
\* in it, whatever is clicked or submitted in it.
C21_TimedOutStep ==
    \A i \in Tabs :
        TimedOut(i) => (tab'[i].poll_disabled /\ ~PollStep(i))

C21_TimedOutTerminal == [][C21_TimedOutStep]_vars

\* the interval of page i fires: it is enabled and the page is not being
\* replaced by a reload
Polling(i) == ~tab[i].poll_disabled /\ ~tab[i].reloading

\* C22: with the interval firing while it is enabled, a page that polls
\* reaches a state in which it polls no more (reloading or timed out).
C22_PollingTerminates ==
    \A i \in Tabs : Polling(i) ~> ~Polling(i)

\* C22 witness: a page that polled until the limit and shows Reload Page.
C22_Witness ==
    /\ TimedOut("tabA")
    /\ tab["tabA"].login_children = "Reload Page"
    /\ tab["tabA"].ticks > 0
    /\ nextToken = MaxTokens

\* a step of the call of page i that writes a token row or sends a mail
WritesOrSends(i) ==
    /\ req[i].pc \in {"insert", "send"}
    /\ req'[i] # req[i]
    /\ (links' # links \/ mailbox' # mailbox)

\* C23: a trigger is let through only on a page whose countdown is at 0, and
\* every row written and every mail sent comes from a call that was given
\* email_sent_flag = 0.
C23_RefusedStep ==
    \A i \in Tabs :
        /\ (req[i].pc = "idle" /\ req'[i].pc = "called")
              => tab[i].email_sent_flag = 0
        /\ WritesOrSends(i) => req[i].email_sent_flag = 0

C23_RefusedDuringCountdown == [][C23_RefusedStep]_vars

\* C23 witness: after a link was mailed and while the countdown ran, a
\* trigger on the page was refused and nothing more was written or sent.
C23_Witness ==
    /\ Cardinality(mailbox) = 1 /\ nextToken = 1
    /\ req["tabA"].pc = "idle"
    /\ ~tab["tabA"].poll_disabled
    /\ tab["tabA"].n_intervals = 11
    /\ tab["tabA"].email_sent_flag = 0
    /\ tab["tabA"].login_children = "Login"

\* C24: on a page that polls, login_button is disabled exactly when the
\* countdown email_sent_flag is positive.
C24_ButtonFollowsCountdown ==
    \A i \in Tabs :
        Polling(i) => (tab[i].login_disabled <=> tab[i].email_sent_flag > 0)

\* C25: (a) after a tick poll_auth is disabled exactly when the item was set
\* or n_intervals has reached the limit, whatever the countdown is; (b) a
\* step that takes the countdown from a positive value to 0 leaves
\* poll_auth.disabled as it was and does not restart the count of ticks.
C25_TickStep ==
    \A i \in Tabs :
        PollStep(i) =>
            (tab'[i].poll_disabled <=>
                (local_storage = "1" \/ tab'[i].n_intervals >= PollLimit))

C25_ZeroStep ==
    \A i \in Tabs :
        (tab[i].email_sent_flag > 0 /\ tab'[i].email_sent_flag = 0)
            => /\ tab'[i].poll_disabled = tab[i].poll_disabled
               /\ tab'[i].n_intervals \in
                      {tab[i].n_intervals, tab[i].n_intervals + 1}
               /\ tab'[i].ticks - tab[i].ticks =
                      tab'[i].n_intervals - tab[i].n_intervals

C25_CountdownIndependent == [][C25_TickStep /\ C25_ZeroStep]_vars

\* C25 witness: the tick that ended the countdown has run and the page still
\* polls, and a later tick found the item while a new countdown was running.
C25_Witness ==
    /\ tab["tabA"].reloading
    /\ tab["tabA"].email_sent_flag > 0
    /\ tab["tabA"].n_intervals > ResendCountdown + 1
    /\ tab["tabA"].n_intervals < PollLimit

\* a validation in window v that called login_user and returned login_success
Succeeded(v) ==
    /\ Done(v) /\ val[v].result = LoginSuccessful
    /\ val[v].logged_in /\ val[v].login_success

\* C26: the item hercules_logged_in is set only by a window whose validation
\* succeeded: whenever it is set, and at the step that sets it, some window
\* has logged a user in; a window whose validation failed never sets it.
C26_SetStep ==
    \A v \in Validators :
        (val'[v].closed /\ ~val[v].closed)
            => (Succeeded(v) /\ local_storage' = "1")

C26_FlagStep ==
    (local_storage' = "1" /\ local_storage # "1")
        => \E v \in Validators : Succeeded(v) /\ val'[v].closed /\ ~val[v].closed

C26_FlagImpliesSuccess ==
    local_storage = "1" => \E v \in Validators : Succeeded(v) /\ val[v].closed

C26_FlagOnlyAfterSuccess ==
    /\ []C26_FlagImpliesSuccess
    /\ [][C26_SetStep /\ C26_FlagStep]_vars

\* C26 witness: one window failed, the other succeeded and set the item.
C26_Witness ==
    /\ local_storage = "1"
    /\ Succeeded("linkA") /\ val["linkA"].closed
    /\ Done("linkB") /\ val["linkB"].result = AccountNotApproved
    /\ ~val["linkB"].closed

\* C27: a page that polled when a validation succeeded either has found the
\* item (its reload has started) or can still find it: while such a page polls
\* and the window has set the item, the item is still set.
C27_EveryWatcherNotified ==
    \A v \in Validators : \A i \in val[v].watchers :
        (val[v].closed /\ Polling(i)) => local_storage = "1"

\* the (email, token) pairs of the table
Keys(table) == { <<r.email, r.token>> : r \in table }

\* C28: (a) an email that has a row keeps a row; (b) a step of a validation
\* leaves the (email, token) pairs of all rows and every row of another token
\* as they were; (c) the step at which the validity check fails changes no
\* row.
C28_RowsKept ==
    \A r \in links : \E q \in links' : q.email = r.email

C28_ValidatorStep ==
    \A v \in Validators :
        (val'[v] # val[v]) =>
            /\ Keys(links') = Keys(links)
            /\ \A r \in links : r.token # val[v].token => r \in links'
            /\ (val[v].pc = "lookup" /\ val'[v].result = InvalidLink)
                  => links' = links

C28_OnlyExpiryChanges == [][C28_RowsKept /\ C28_ValidatorStep]_vars

\* C28 witness: the token of one account was consumed while the other account
\* has a row, which still carries the expiry its issuance gave it.
C28_Witness ==
    /\ Consumed("linkA")
    /\ \E r \in links : r.token = val["linkA"].token /\ r.expiry = val["linkA"].now
    /\ \E r \in links : /\ r.token # val["linkA"].token
                        /\ r.expiry > clock

\* C29: display_page has returned the dashboard layout, and a data callback
\* has produced output, only for session-store data whose session_id is in
\* user_sessions; any other request got the login layout or PreventUpdate.
C29_RoutesGuarded ==
    /\ served.response \in {"dashboard", "output"}
          => /\ served.session_data # NoStore
             /\ served.session_data \in user_sessions
    /\ served.response \in {"login", "PreventUpdate"}
          => (served.session_data = NoStore
                \/ served.session_data \notin user_sessions)
    /\ served.route = "display_page" => served.response \in {"dashboard", "login"}
    /\ served.route \in DataCallbacks
          => served.response \in {"output", "PreventUpdate"}

\* C29 witness: update_dashboard refused data with an id that was never
\* created while the browser holds a session.
C29_Witness ==
    /\ served.route = "update_dashboard"
    /\ served.response = "PreventUpdate"
    /\ served.session_data = <<"forged", 0>>
    /\ store # NoStore /\ store \in user_sessions

\* C30: (a) the lookup takes the email of the row that holds the token;
\* (b) the invalidation keeps it; (c) the step that logs a user in starts the
\* session of the account with that email; (d) a token in a row is the token
\* that was mailed to the email of the row.
C30_LookupStep ==
    \A v \in Validators :
        (val[v].pc = "lookup" /\ val'[v].pc = "invalidate")
            => \E r \in links : r.token = val[v].token /\ r.email = val'[v].email

C30_InvalidateStep ==
    \A v \in Validators :
        (val[v].pc = "invalidate" /\ val'[v].pc = "auth")
            => val'[v].email = val[v].email

C30_LoginStep ==
    \A v \in Validators :
        (val[v].pc = "auth" /\ val'[v].result = LoginSuccessful)
            => /\ session' = val[v].email
               /\ \A r \in links : r.token = val[v].token => r.email = session'

C30_MailedToRowEmail ==
    \A r \in links : \A m \in mailbox :
        ParseToken(SearchOf(m.link)) = r.token => m.to = r.email

C30_SessionOfTokenEmail ==
    /\ []C30_MailedToRowEmail
    /\ [][C30_LookupStep /\ C30_InvalidateStep /\ C30_LoginStep]_vars

\* C30 witness: the two windows validated the tokens of two accounts; the
\* session is that of the account whose token was validated last.
C30_Witness ==
    /\ Done("linkA") /\ val["linkA"].result = LoginSuccessful
    /\ Done("linkB") /\ val["linkB"].result = LoginSuccessful
    /\ \E r \in links : r.token = val["linkA"].token /\ r.email = DemoEmail
    /\ \E r \in links : r.token = val["linkB"].token /\ r.email = EveEmail
    /\ session = EveEmail

\* C31: a tick starts the reload of a page only if a window whose validation
\* succeeded has set the item after the last link asked for on that page was
\* mailed.
C31_CompletedStep ==
    (PollStep("tabA") /\ tab'["tabA"].reloading)
        => \E v \in Validators :
              /\ Succeeded(v) /\ val[v].closed
              /\ val[v].mails = Cardinality(mailbox)

C31_CompletedByLaterValidation == [][C31_CompletedStep]_vars

\* some window takes a step of its validation
ValidationStep == \E v \in Validators : val'[v] # val[v]

\* C32: a step of a validation never makes a token whose row has its expiry
\* at or before the current time pass the test expiry > :now for a timestamp
\* :now (captured at any moment up to the current time) for which it failed.
C32_RevivedStep ==
    ValidationStep =>
        \A r \in links : \A now \in 0..clock :
            (r.expiry <= clock /\ r.expiry <= now)
                => \A q \in links' : q.token = r.token => q.expiry <= now

C32_NeverRevived == [][C32_RevivedStep]_vars

\* C33: (a) the step at which _invalidate_token reports failure returns the
\* error, logs nobody in and leaves the rows, the session and the item as
\* they were; (b) _authenticate_user is entered only by the step that applied
\* the UPDATE, and a user is logged in only from there; (c) a window that
\* reported the failure never sets the item.
C33_FailureStep ==
    \A v \in Validators :
        (val[v].pc = "invalidate" /\ val'[v].pc = "done")
            => /\ val'[v].result = UpdateFailed
               /\ ~val'[v].login_success /\ ~val'[v].logged_in
               /\ links' = links
               /\ session' = session
               /\ local_storage' = local_storage

C33_AuthStep ==
    \A v \in Validators :
        /\ (val'[v].pc = "auth" /\ val[v].pc # "auth")
              => /\ val[v].pc = "invalidate"
                 /\ \A r \in links' :
                       r.token = val[v].token => r.expiry = val[v].now
        /\ (val'[v].logged_in /\ ~val[v].logged_in) => val[v].pc = "auth"

C33_FailedNeverNotifies ==
    \A v \in Validators :
        val[v].result = UpdateFailed => (~val[v].closed /\ ~val[v].login_success)

C33_SessionOnlyAfterInvalidation ==
    /\ []C33_FailedNeverNotifies
    /\ [][C33_FailureStep /\ C33_AuthStep]_vars

\* C33 witness: the UPDATE of one window failed and the token, left valid,
\* was validated by the other window afterwards.
C33_Witness ==
    /\ Done("linkA") /\ val["linkA"].result = UpdateFailed
    /\ Done("linkB") /\ val["linkB"].result = LoginSuccessful
    /\ val["linkB"].token = val["linkA"].token
    /\ UpdateFailed \in val["linkB"].prior
    /\ session = DemoEmail

\* C34: (a) every link in a mail carries a token that is in a row or was in
\* a row until a later upsert replaced it; (b) send_email is reached only by
\* the step that wrote the row of the request, and the mail carries the token
\* of that request; (c) a call that ends at the upsert sends no mail, writes
\* no row and shows the error.
C34_MailedTokenWritten ==
    \A m \in mailbox :
        ParseToken(SearchOf(m.link)) \in { r.token : r \in links } \cup superseded

C34_SendStep ==
    \A i \in Tabs :
        /\ (req'[i].pc = "send" /\ req[i].pc # "send")
              => /\ req[i].pc = "insert"
                 /\ [email |-> req[i].email, token |-> req[i].token,
                     expiry |-> req[i].expiry] \in links'
        /\ (req[i].pc = "send" /\ mailbox' # mailbox)
              => mailbox' = mailbox \cup
                     { [to |-> req[i].email, link |-> MagicLink(Href, req[i].token)] }

C34_InsertFailedStep ==
    \A i \in Tabs :
        (req[i].pc = "insert" /\ req'[i].pc = "idle")
            => /\ mailbox' = mailbox
               /\ links' = links
               /\ tab'[i].alert = ErrorOccurred /\ ~tab'[i].alert_hide

C34_MailAfterUpsert ==
    /\ []C34_MailedTokenWritten
    /\ [][C34_SendStep /\ C34_InsertFailedStep]_vars

\* C34 witness: the first call ended at a failed upsert without a mail, the
\* second wrote its row and its link was mailed.
C34_Witness ==
    /\ nextToken = 2
    /\ superseded = {}
    /\ \E r \in links : r.token = Uuid(2)
    /\ \E m \in mailbox : ParseToken(SearchOf(m.link)) = Uuid(2)
    /\ Cardinality(mailbox) = 1 /\ Cardinality(links) = 1
    /\ req["tabA"] = IdleReq
    /\ val["linkA"] = IdleVal

InvalidInputs == { e \in EmailInputs : validate_email(e) # "False" }

\* the parts of C35 on the server side: a call is let through only with an
\* email that validate_email accepts, and a call refused for its email reads
\* no account, writes no row and sends no mail
C35_NoBackendStep ==
    \A i \in Tabs :
        /\ (req[i].pc = "idle" /\ req'[i].pc = "called")
              => validate_email(req'[i].email) = "False"
        /\ TriggerPrevented(i, InvalidInputs)
              => /\ req'[i].pc = "idle"
                 /\ links' = links /\ mailbox' = mailbox /\ users' = users

C35_NoBackend == [][C35_NoBackendStep]_vars

\* the part of C35 on the page: a call refused for its email leaves every
\* output of the page as it was
C35_NoUiStep ==
    \A i \in Tabs : TriggerPrevented(i, InvalidInputs) => tab'[i] = tab[i]

\* C35: send_magic_link with an email that is empty or does not match the
\* address format reads no account, writes no row, sends no mail and changes
\* no output of the page.
C35_InvalidIsNoOp == [][C35_NoBackendStep /\ C35_NoUiStep]_vars

\* a step of the call of page i that ends with the mail sent
MailSentStep(i) ==
    /\ req[i].pc = "send" /\ req'[i].pc = "idle"
    /\ mailbox' # mailbox

\* on a page that has neither reached the limit nor started a reload,
\* n_intervals counts the ticks since polling was enabled on the page
C36_CountsAllTicks ==
    \A i \in Tabs :
        (tab[i].n_intervals < PollLimit /\ ~tab[i].reloading)
            => tab[i].ticks = tab[i].n_intervals - 1

C36_CounterStep ==
    \A i \in Tabs :
        /\ MailSentStep(i)
              => /\ tab'[i].n_intervals = tab[i].n_intervals
                 /\ Polling(i) => tab'[i].ticks = tab[i].ticks
        /\ (~TimedOut(i) /\ TimedOut(i)' /\ tab[i].n_intervals < PollLimit)
              => /\ PollStep(i)
                 /\ tab'[i].ticks = PollLimit - 1

\* C36: a mail sent from a page leaves its tick counter as it is, and the
\* page times out on the tick that is PollLimit - 1 ticks after polling was
\* first enabled since the page was loaded, however many mails were sent.
C36_CounterNeverReset ==
    /\ []C36_CountsAllTicks
    /\ [][C36_CounterStep]_vars

\* C36 witness: the page timed out less than ResendCountdown ticks (one
\* minute) after its second link was mailed, whose row has not expired.
C36_Witness ==
    /\ TimedOut("tabA")
    /\ tab["tabA"].n_intervals = PollLimit
    /\ tab["tabA"].ticks = PollLimit - 1
    /\ req["tabA"].pc = "idle"
    /\ tab["tabA"].email_sent_flag > 0
    /\ Cardinality(mailbox) = 2
    /\ \E r \in links : r.token = Uuid(2) /\ r.expiry > clock

====
